---- MODULE Spec2Model ----
(***************************************************************************)
(* Control logic of run_sapt_dft (psi4/driver/procrouting/sapt/            *)
(* sapt_proc.py): the option stash, the validation gates, the optional     *)
(* delta-HF pass, the DFT monomer pass, the energy-term evaluators and the *)
(* publication of the result dictionary.  One call of run_sapt_dft is one  *)
(* behaviour; pc is the position of the call in the function body.         *)
(***************************************************************************)
EXTENDS Integers, Sequences, FiniteSets, TLC

(* ------------------------------ bounds -------------------------------- *)
\* energies returned by a sub-calculation range over 0..MaxEnergy
MaxEnergy == 1

\* values of the GRAC shift options: unset (0.0) and two distinct shifts
Shifts == {0, 1, 2}
Energies == 0..MaxEnergy
FragCounts == {1, 2, 3}
Functionals == {"HF", "PBE0"}
DispAlgs == {"SAPT", "FISAPT"}

(* --------------------------- configuration ---------------------------- *)
\* keys handed to p4util.OptionsState
StashKeys == {"SCF_TYPE", "REFERENCE", "DFT_FUNCTIONAL", "DFT_GRAC_SHIFT", "SAVE_JK"}
\* every option key the function reads or writes in module SCF / globals
OptionKeys == StashKeys \cup {"DF_INTS_IO"}

Opt(v, c) == [val |-> v, changed |-> c]

\* core.get_option(module, key): the value in effect
get_option(o, k) == o[k].val
\* core.has_option_changed(module, key)
has_option_changed(o, k) == o[k].changed
\* core.set_local_option / core.set_global_option: the value is set and marked changed
set_option(o, k, v) == [o EXCEPT ![k] = Opt(v, TRUE)]
\* p4util.OptionsState(...): the recorded value and changed flag of every listed key
OptionsState(o) == [k \in StashKeys |-> o[k]]

(* ------------------------------ mappings ------------------------------ *)
EmptyMap == [l \in {} |-> 0]
\* assignment in place of dict.update: the earlier entries are lost
update_assign(d, m) == m
\* dict.update: entries of m replace entries of d with the same key
update(d, m) == [l \in (DOMAIN d) \cup (DOMAIN m) |-> IF l \in DOMAIN m THEN m[l] ELSE d[l]]
\* d[label] = value
setitem(d, l, v) == update(d, [x \in {l} |-> v])

Entry(v, s, p) == [val |-> v, src |-> s, pass |-> p]

(* ----------------------------- wavefunctions -------------------------- *)
NoWfn == [producer |-> "none", mol |-> "none", pass |-> "none", energy |-> 0]
ScfWfn(m, p, e) == [producer |-> "scf_helper", mol |-> m, pass |-> p, energy |-> e]
\* core.Wavefunction.build(sapt_dimer, BASIS): a wavefunction no sub-calculation produced
BuiltWfn == [producer |-> "Wavefunction.build", mol |-> "dimer", pass |-> "none", energy |-> 0]
WfnNames == {"hf_wfn_dimer", "hf_wfn_A", "hf_wfn_B", "wfn_A", "wfn_B", "dimer_wfn"}

NoCache == [pass |-> "none", A |-> NoWfn, B |-> NoWfn]
\* build_sapt_jk_cache called with the two monomers exchanged
build_sapt_jk_cache_swapped(p, a, b) == [pass |-> p, A |-> b, B |-> a]
\* sapt_jk_terms.build_sapt_jk_cache(wfn_A, wfn_B, jk, True)
build_sapt_jk_cache(p, a, b) == [pass |-> p, A |-> a, B |-> b]

VARIABLES
    pc,          \* position in run_sapt_dft
    err,         \* the exception that ended the call, "none" if none
    opts,        \* option key -> [val, changed]
    optstash,    \* the p4util.OptionsState object, EmptyMap before it is built
    pre,         \* the options as they were when run_sapt_dft was entered
    sapt,        \* options of module SAPT read at lines 79-82
    disp_alg,    \* SAPT_DFT_MP2_DISP_ALG as read at line 281, "unread" before
    nfrag,       \* sapt_dimer.nfragments()
    default_ns,  \* core.IO default namespace
    file_ns,     \* namespace holding the saved DF integrals (file 97)
    retargets,   \* sequence of change_file_namespace calls <<old, new>>
    data,        \* the result dictionary (label -> entry)
    hf_data,     \* the delta-HF pass's dictionary
    wfn,         \* local wavefunction variables
    hf_cache,    \* cache of the delta-HF pass
    cache,       \* cache of the DFT pass
    variables,   \* core variable store (label -> value)
    calls,       \* sequence of scf_helper calls with the settings in effect
    evals,       \* sequence of evaluator calls
    builds,      \* sequence of caches built by build_sapt_jk_cache
    produced,    \* sequence of entries written into data, in order
    written,     \* option keys written by the function
    ret          \* the returned wavefunction

vars == <<pc, err, opts, optstash, pre, sapt, disp_alg, nfrag, default_ns, file_ns,
          retargets, data, hf_data, wfn, hf_cache, cache, variables, calls, evals,
          builds, produced, written, ret>>


(* ------------------------------ evaluators ---------------------------- *)
Evaluators == {"electrostatics", "exchange", "induction", "df_fdds_dispersion",
               "df_mp2_fisapt_dispersion", "df_mp2_sapt_dispersion"}
\* the label an energy-term function usually returns
UsualLabel(fn) ==
    CASE fn = "electrostatics" -> "Elst10,r"
      [] fn = "exchange" -> "Exch10"
      [] fn = "induction" -> "Ind20,r"
      [] fn = "df_fdds_dispersion" -> "Disp20"
      [] fn = "df_mp2_fisapt_dispersion" -> "Disp20,u (FISAPT)"
      [] OTHER -> "Disp20,u (SAPT)"
\* the result mappings are the evaluators' own: a dispersion function may also return a
\* label that an earlier evaluator has returned
ReturnedLabels(fn) ==
    {UsualLabel(fn)} \cup
    (IF fn \in {"df_fdds_dispersion", "df_mp2_fisapt_dispersion", "df_mp2_sapt_dispersion"}
     THEN {UsualLabel("electrostatics")} ELSE {})
\* the mapping {label: value} a call of fn in pass p returns
Result(fn, p, l) == [x \in {l} |-> Entry(0, fn, p)]
EvalCall(fn, p, c) == [fn |-> fn, pass |-> p, cache |-> c.pass]
Produced(l, e) == [label |-> l, src |-> e.src, pass |-> e.pass]

(* --------------------------- scf_helper calls ------------------------- *)
\* the settings a sub-calculation starts under
CallRec(o, m, p, ns, fns) ==
    [mol |-> m, pass |-> p, reference |-> get_option(o, "REFERENCE"),
     functional |-> get_option(o, "DFT_FUNCTIONAL"), shift |-> get_option(o, "DFT_GRAC_SHIFT"),
     default_ns |-> ns, file_ns |-> fns]
\* scf_helper leaves the energy it computed in the variable CURRENT ENERGY
ScfVariables(v, e) == setitem(v, "CURRENT ENERGY", e)
\* core.IO.change_file_namespace(97, old, new)
change_file_namespace(ns, old, new) == IF ns = old THEN new ELSE ns

(* ------------------------------- Init --------------------------------- *)
InitOptions ==
    { [k \in OptionKeys |->
          CASE k = "SCF_TYPE" -> st
            [] k = "REFERENCE" -> rf
            [] k = "DFT_FUNCTIONAL" -> Opt("", FALSE)
            [] k = "DFT_GRAC_SHIFT" -> gs
            [] k = "SAVE_JK" -> Opt(FALSE, FALSE)
            [] OTHER -> Opt("NONE", FALSE)] :
        st \in {Opt("PK", FALSE), Opt("PK", TRUE), Opt("DF", TRUE)},
        rf \in {Opt("RHF", FALSE), Opt("UHF", TRUE)},
        gs \in {Opt(0, FALSE), Opt(2, TRUE)} }

Init ==
    /\ pc = "start"
    /\ err = "none"
    /\ opts \in InitOptions
    /\ pre = opts
    /\ optstash = EmptyMap
    /\ sapt \in [shift_a : Shifts, shift_b : Shifts, do_dhf : BOOLEAN, functional : Functionals]
    /\ disp_alg = "unread"
    /\ nfrag \in FragCounts
    /\ default_ns = "none"
    /\ file_ns = "none"
    /\ retargets = <<>>
    /\ data = EmptyMap
    /\ hf_data = EmptyMap
    /\ wfn = [n \in WfnNames |-> NoWfn]
    /\ hf_cache = NoCache
    /\ cache = NoCache
    /\ variables = EmptyMap
    /\ calls = <<>>
    /\ evals = <<>>
    /\ builds = <<>>
    /\ produced = <<>>
    /\ written = {}
    /\ ret = NoWfn

(* ------------------------- lines 45-57: entry ------------------------- *)
\* lines 54-55: DF becomes the algorithm unless the user chose one
AlterDefault(o) == IF ~has_option_changed(o, "SCF_TYPE") THEN set_option(o, "SCF_TYPE", "DF") ELSE o

Enter ==
    /\ pc = "start"
    /\ optstash' = OptionsState(opts)
    /\ opts' = AlterDefault(opts)
    /\ written' = IF ~has_option_changed(opts, "SCF_TYPE") THEN written \cup {"SCF_TYPE"} ELSE written
    /\ pc' = "validate"
    /\ UNCHANGED <<err, pre, sapt, disp_alg, nfrag, default_ns, file_ns, retargets, data,
                   hf_data, wfn, hf_cache, cache, variables, calls, evals, builds, produced, ret>>

(* ---------------------- lines 109-118: validation --------------------- *)
\* Gate without the shift gate of lines 109-110
Gate_no_shift(s, o, n) ==
    IF get_option(o, "REFERENCE") # "RHF" THEN "reference"
    ELSE IF n # 2 THEN "nfrag"
    ELSE "ok"
\* Gate without the reference and fragment gates of lines 112-118
Gate_shift_only(s, o, n) ==
    IF (s.functional # "HF") /\ ((s.shift_a = 0) \/ (s.shift_b = 0)) THEN "shift"
    ELSE "ok"
\* which of the three gates stops the run, "ok" if none
Gate(s, o, n) ==
    IF (s.functional # "HF") /\ ((s.shift_a = 0) \/ (s.shift_b = 0)) THEN "shift"
    ELSE IF get_option(o, "REFERENCE") # "RHF" THEN "reference"
    ELSE IF n # 2 THEN "nfrag"
    ELSE "ok"

Validate ==
    /\ pc = "validate"
    /\ \/ /\ Gate(sapt, opts, nfrag) # "ok"
          /\ pc' = "raised"
          /\ err' = "ValidationError"
       \/ /\ Gate(sapt, opts, nfrag) = "ok"
          /\ pc' = "setup"
          /\ err' = err
    /\ UNCHANGED <<opts, optstash, pre, sapt, disp_alg, nfrag, default_ns, file_ns, retargets,
                   data, hf_data, wfn, hf_cache, cache, variables, calls, evals, builds, produced,
                   written, ret>>

(* ------------------------ lines 120-135: set-up ----------------------- *)
\* the delta-HF pass never run
do_delta_hf_never == FALSE
\* the delta-HF pass run whatever the flag
do_delta_hf_always == TRUE
\* line 136: the delta-HF pass runs when SAPT_DFT_DO_DHF is set
do_delta_hf == sapt.do_dhf
\* lines 129-131 with the reference override of line 205 moved up to them
SaveInts_rks(o) ==
    set_option(IF get_option(o, "SCF_TYPE") = "DF" THEN set_option(o, "DF_INTS_IO", "SAVE") ELSE o,
               "REFERENCE", "RKS")
\* lines 129-131, 137-138: the DF integrals are saved when the algorithm is DF
SaveInts(o) == IF get_option(o, "SCF_TYPE") = "DF" THEN set_option(o, "DF_INTS_IO", "SAVE") ELSE o
SaveIntsKeys(o) == IF get_option(o, "SCF_TYPE") = "DF" THEN {"DF_INTS_IO"} ELSE {}

Setup ==
    /\ pc = "setup"
    /\ default_ns' = "dimer"
    /\ file_ns' = "dimer"
    /\ data' = EmptyMap
    /\ opts' = SaveInts(set_option(opts, "SAVE_JK", TRUE))
    /\ written' = written \cup {"SAVE_JK"} \cup SaveIntsKeys(opts)
    /\ hf_cache' = NoCache
    /\ pc' = IF do_delta_hf THEN "hf_dimer" ELSE "dimer_wfn"
    /\ UNCHANGED <<err, optstash, pre, sapt, disp_alg, nfrag, retargets, hf_data, wfn, cache,
                   variables, calls, evals, builds, produced, ret>>


(* --------------------- lines 136-196: delta-HF pass ------------------- *)
\* a sub-calculation that raises: the call is logged, nothing else of the step happens
ScfFails(o, m, p) ==
    /\ calls' = Append(calls, CallRec(o, m, p, default_ns', file_ns'))
    /\ pc' = "raised"
    /\ err' = "EngineError"

\* lines 137-143
HfDimer ==
    /\ pc = "hf_dimer"
    /\ opts' = SaveInts(opts)
    /\ written' = written \cup SaveIntsKeys(opts)
    /\ UNCHANGED <<default_ns, file_ns, retargets>>
    /\ \/ /\ ScfFails(opts', "dimer", "aux")
          /\ UNCHANGED <<wfn, variables, hf_data>>
       \/ \E e \in Energies :
          /\ calls' = Append(calls, CallRec(opts', "dimer", "aux", default_ns', file_ns'))
          /\ wfn' = [wfn EXCEPT !["hf_wfn_dimer"] = ScfWfn("dimer", "aux", e)]
          /\ variables' = ScfVariables(variables, e)
          /\ hf_data' = setitem(EmptyMap, "HF DIMER", Entry(variables'["CURRENT ENERGY"], "scf_helper", "aux"))
          /\ pc' = "hf_monA"
          /\ err' = err
    /\ UNCHANGED <<optstash, pre, sapt, disp_alg, nfrag, data, hf_cache, cache, evals, builds,
                   produced, ret>>

\* the namespaces of a retargeting handed over in the wrong order
RetargetLog_swapped(o, log, old, new) == IF get_option(o, "SCF_TYPE") = "DF" THEN Append(log, <<new, old>>) ELSE log
\* lines 145-146, 151-152, 158-159, 208-209, 222-223: the saved integrals follow the
\* next molecule when the algorithm is DF
Retarget(o, ns, old, new) == IF get_option(o, "SCF_TYPE") = "DF" THEN change_file_namespace(ns, old, new) ELSE ns
RetargetLog(o, log, old, new) == IF get_option(o, "SCF_TYPE") = "DF" THEN Append(log, <<old, new>>) ELSE log

\* lines 145-149
HfMonomerA ==
    /\ pc = "hf_monA"
    /\ file_ns' = Retarget(opts, file_ns, "dimer", "monomerA")
    /\ retargets' = RetargetLog(opts, retargets, "dimer", "monomerA")
    /\ UNCHANGED <<default_ns, opts, written>>
    /\ \/ /\ ScfFails(opts, "monomerA", "aux")
          /\ UNCHANGED <<wfn, variables, hf_data>>
       \/ \E e \in Energies :
          /\ calls' = Append(calls, CallRec(opts, "monomerA", "aux", default_ns', file_ns'))
          /\ wfn' = [wfn EXCEPT !["hf_wfn_A"] = ScfWfn("monomerA", "aux", e)]
          /\ variables' = ScfVariables(variables, e)
          /\ hf_data' = setitem(hf_data, "HF MONOMER A", Entry(variables'["CURRENT ENERGY"], "scf_helper", "aux"))
          /\ pc' = "hf_monB"
          /\ err' = err
    /\ UNCHANGED <<optstash, pre, sapt, disp_alg, nfrag, data, hf_cache, cache, evals, builds,
                   produced, ret>>

\* lines 151-155
HfMonomerB ==
    /\ pc = "hf_monB"
    /\ file_ns' = Retarget(opts, file_ns, "monomerA", "monomerB")
    /\ retargets' = RetargetLog(opts, retargets, "monomerA", "monomerB")
    /\ UNCHANGED <<default_ns, opts, written>>
    /\ \/ /\ ScfFails(opts, "monomerB", "aux")
          /\ UNCHANGED <<wfn, variables, hf_data>>
       \/ \E e \in Energies :
          /\ calls' = Append(calls, CallRec(opts, "monomerB", "aux", default_ns', file_ns'))
          /\ wfn' = [wfn EXCEPT !["hf_wfn_B"] = ScfWfn("monomerB", "aux", e)]
          /\ variables' = ScfVariables(variables, e)
          /\ hf_data' = setitem(hf_data, "HF MONOMER B", Entry(variables'["CURRENT ENERGY"], "scf_helper", "aux"))
          /\ pc' = "hf_cache"
          /\ err' = err
    /\ UNCHANGED <<optstash, pre, sapt, disp_alg, nfrag, data, hf_cache, cache, evals, builds,
                   produced, ret>>

\* lines 158-172: the integrals go back to the dimer, then the cache is built
HfCache ==
    /\ pc = "hf_cache"
    /\ file_ns' = Retarget(opts, file_ns, "monomerB", "dimer")
    /\ retargets' = RetargetLog(opts, retargets, "monomerB", "dimer")
    /\ \/ /\ pc' = "raised"
          /\ err' = "EngineError"
          /\ hf_cache' = hf_cache
          /\ builds' = builds
       \/ /\ hf_cache' = build_sapt_jk_cache("aux", wfn["hf_wfn_A"], wfn["hf_wfn_B"])
          /\ builds' = Append(builds, hf_cache')
          /\ pc' = "hf_elst"
          /\ err' = err
    /\ UNCHANGED <<opts, optstash, pre, sapt, disp_alg, nfrag, default_ns, data, hf_data, wfn,
                   cache, variables, calls, evals, produced, written, ret>>

\* an evaluator call of the delta-HF pass: its result is merged into hf_data
HfEvaluate(at, fn, next, failure) ==
    /\ pc = at
    /\ evals' = Append(evals, EvalCall(fn, "aux", hf_cache))
    /\ \/ /\ pc' = "raised"
          /\ err' \in failure
          /\ UNCHANGED hf_data
       \/ \E l \in ReturnedLabels(fn) :
          /\ hf_data' = update(hf_data, Result(fn, "aux", l))
          /\ pc' = next
          /\ err' = err
    /\ UNCHANGED <<opts, optstash, pre, sapt, disp_alg, nfrag, default_ns, file_ns, retargets,
                   data, wfn, hf_cache, cache, variables, calls, builds, produced, written,
                   ret>>

\* lines 175-176
HfElectrostatics == HfEvaluate("hf_elst", "electrostatics", "hf_exch", {"EngineError"})
\* lines 179-180 calling induction in place of exchange
HfExchange_induction == HfEvaluate("hf_exch", "induction", "hf_ind", {"EngineError"})
\* lines 179-180
HfExchange == HfEvaluate("hf_exch", "exchange", "hf_ind", {"EngineError"})
\* lines 183-189
HfInduction == HfEvaluate("hf_ind", "induction", "hf_delta", {"EngineError", "ConvergenceError"})

\* line 191 with monomer B's energy added instead of subtracted
dhf_value_plus(hf) == hf["HF DIMER"].val - hf["HF MONOMER A"].val + hf["HF MONOMER B"].val
\* line 191
dhf_value(hf) == hf["HF DIMER"].val - hf["HF MONOMER A"].val - hf["HF MONOMER B"].val
\* line 194: print_sapt_hf_summary(hf_data, "SAPT(HF)", delta_hf=dhf_value) leaves the delta
\* in the variable the next statement reads
print_sapt_hf_summary(v, delta_hf) == setitem(v, "SAPT(DFT) Delta HF", delta_hf)

\* lines 191-196
HfDelta ==
    /\ pc = "hf_delta"
    /\ variables' = print_sapt_hf_summary(variables, dhf_value(hf_data))
    /\ data' = setitem(data, "Delta HF Correction",
                       Entry(variables'["SAPT(DFT) Delta HF"], "delta_hf", "aux"))
    /\ produced' = Append(produced, Produced("Delta HF Correction", data'["Delta HF Correction"]))
    /\ pc' = "dimer_wfn"
    /\ UNCHANGED <<err, opts, optstash, pre, sapt, disp_alg, nfrag, default_ns, file_ns,
                   retargets, hf_data, wfn, hf_cache, cache, calls, evals, builds, written, ret>>


(* ------------------ lines 198-232: DFT monomer pass ------------------- *)
\* lines 198-201 with the bare wavefunction built in every case
select_dimer_wfn_built(w) == BuiltWfn
\* lines 198-201: the dimer wavefunction handed to dispersion and returned
select_dimer_wfn(w) == IF w["hf_wfn_dimer"] = NoWfn THEN BuiltWfn ELSE w["hf_wfn_dimer"]
\* lines 204-205
SetPrimary(o, s) == set_option(set_option(o, "DFT_FUNCTIONAL", s.functional), "REFERENCE", "RKS")

DimerWfn ==
    /\ pc = "dimer_wfn"
    /\ wfn' = [wfn EXCEPT !["dimer_wfn"] = select_dimer_wfn(wfn)]
    /\ opts' = SetPrimary(opts, sapt)
    /\ written' = written \cup {"DFT_FUNCTIONAL", "REFERENCE"}
    /\ pc' = "dft_monA"
    /\ UNCHANGED <<err, optstash, pre, sapt, disp_alg, nfrag, default_ns, file_ns, retargets,
                   data, hf_data, hf_cache, cache, variables, calls, evals, builds, produced, ret>>

\* lines 211-212, 225-226: the shift is set only when it is not zero
ApplyShift(o, shift) == IF shift # 0 THEN set_option(o, "DFT_GRAC_SHIFT", shift) ELSE o
\* lines 219, 232
ResetShift(o) == set_option(o, "DFT_GRAC_SHIFT", 0)
\* lines 217, 230: data[label] = core.get_variable("CURRENT ENERGY")
RecordEnergy(d, v, l) == setitem(d, l, Entry(v["CURRENT ENERGY"], "scf_helper", "primary"))

\* a DFT monomer sub-calculation: retarget, shift, namespace, scf_helper, record, reset
DftMonomer(at, old, mol, shift, name, label, next) ==
    /\ pc = at
    /\ file_ns' = Retarget(opts, file_ns, old, mol)
    /\ retargets' = RetargetLog(opts, retargets, old, mol)
    /\ default_ns' = mol
    /\ calls' = Append(calls, CallRec(ApplyShift(opts, shift), mol, "primary", default_ns', file_ns'))
    /\ \/ /\ opts' = ApplyShift(opts, shift)
          /\ written' = IF shift # 0 THEN written \cup {"DFT_GRAC_SHIFT"} ELSE written
          /\ pc' = "raised"
          /\ err' = "EngineError"
          /\ UNCHANGED <<wfn, variables, data, produced>>
       \/ \E e \in Energies :
          /\ wfn' = [wfn EXCEPT ![name] = ScfWfn(mol, "primary", e)]
          /\ variables' = ScfVariables(variables, e)
          /\ data' = RecordEnergy(data, variables', label)
          /\ produced' = Append(produced, Produced(label, data'[label]))
          /\ opts' = ResetShift(ApplyShift(opts, shift))
          /\ written' = written \cup {"DFT_GRAC_SHIFT"}
          /\ pc' = next
          /\ err' = err
    /\ UNCHANGED <<optstash, pre, sapt, disp_alg, nfrag, hf_data, hf_cache, cache, evals, builds, ret>>

\* lines 208-219
DftMonomerA == DftMonomer("dft_monA", "dimer", "monomerA", sapt.shift_a, "wfn_A", "DFT MONOMERA", "dft_monB")
\* lines 222-232 with monomer A handed to the second sub-calculation
DftMonomerB_copy == DftMonomer("dft_monB", "monomerA", "monomerA", sapt.shift_b, "wfn_B", "DFT MONOMERB", "cache")
\* lines 222-232
DftMonomerB == DftMonomer("dft_monB", "monomerA", "monomerB", sapt.shift_b, "wfn_B", "DFT MONOMERB", "cache")

(* ------------------- lines 250-286: energy terms ---------------------- *)
\* lines 251-253
Cache ==
    /\ pc = "cache"
    /\ \/ /\ pc' = "raised"
          /\ err' = "EngineError"
          /\ cache' = cache
          /\ builds' = builds
       \/ /\ cache' = build_sapt_jk_cache("primary", wfn["wfn_A"], wfn["wfn_B"])
          /\ builds' = Append(builds, cache')
          /\ pc' = "elst"
          /\ err' = err
    /\ UNCHANGED <<opts, optstash, pre, sapt, disp_alg, nfrag, default_ns, file_ns, retargets,
                   data, hf_data, wfn, hf_cache, variables, calls, evals, produced, written, ret>>

\* the entries a merge of m into the result dictionary produces, in order
ProducedBy(log, m, l) == Append(log, Produced(l, m[l]))

\* an evaluator call of the DFT pass: data.update(result)
Evaluate(at, fn, next, failure) ==
    /\ pc = at
    /\ evals' = Append(evals, EvalCall(fn, "primary", cache))
    /\ \/ /\ pc' = "raised"
          /\ err' \in failure
          /\ UNCHANGED <<data, produced>>
       \/ \E l \in ReturnedLabels(fn) :
          /\ data' = update(data, Result(fn, "primary", l))
          /\ produced' = ProducedBy(produced, Result(fn, "primary", l), l)
          /\ pc' = next
          /\ err' = err
    /\ UNCHANGED <<opts, optstash, pre, sapt, nfrag, default_ns, file_ns, retargets,
                   hf_data, wfn, hf_cache, cache, variables, calls, builds, written, ret>>

\* lines 256-257
Electrostatics == Evaluate("elst", "electrostatics", "exch", {"EngineError"}) /\ UNCHANGED disp_alg
\* lines 260-261
Exchange == Evaluate("exch", "exchange", "ind", {"EngineError"}) /\ UNCHANGED disp_alg
\* lines 264-270
Induction == Evaluate("ind", "induction", "fdds", {"EngineError", "ConvergenceError"}) /\ UNCHANGED disp_alg
\* lines 273-279
FddsDispersion == Evaluate("fdds", "df_fdds_dispersion", "mp2", {"EngineError"}) /\ UNCHANGED disp_alg

\* lines 281-285 with the option ignored
Mp2Evaluator_sapt(alg) == "df_mp2_sapt_dispersion"
\* lines 281-285: the MP2 dispersion function the option selects
Mp2Evaluator(alg) == IF alg = "FISAPT" THEN "df_mp2_fisapt_dispersion" ELSE "df_mp2_sapt_dispersion"

\* lines 281-286
Mp2Dispersion ==
    \E alg \in DispAlgs :
        /\ disp_alg' = alg
        /\ Evaluate("mp2", Mp2Evaluator(alg), "publish", {"EngineError"})

(* -------------------- lines 288-298: publish, return ------------------ *)
\* lines 293-294 left out: nothing is stored
set_variables_none(v, d) == v
\* lines 293-294: for k, v in data.items(): core.set_variable(k, v)
set_variables(v, d) == update(v, [l \in DOMAIN d |-> d[l].val])
\* the loop run on the failure path too (as in a finally block)
AtPublish_finally == pc \in {"publish", "raised"}
\* the loop is reached only by falling through every statement before it
AtPublish == pc = "publish"

Publish ==
    /\ AtPublish
    /\ variables' = set_variables(variables, data)
    /\ pc' = "tstop"
    /\ UNCHANGED <<err, opts, optstash, pre, sapt, disp_alg, nfrag, default_ns, file_ns,
                   retargets, data, hf_data, wfn, hf_cache, cache, calls, evals, builds, produced,
                   written, ret>>

\* line 298
Return ==
    /\ pc = "tstop"
    /\ ret' = wfn["dimer_wfn"]
    /\ pc' = "returned"
    /\ UNCHANGED <<err, opts, optstash, pre, sapt, disp_alg, nfrag, default_ns, file_ns,
                   retargets, data, hf_data, wfn, hf_cache, cache, variables, calls, evals, builds,
                   produced, written>>

Next ==
    \/ Enter \/ Validate \/ Setup
    \/ HfDimer \/ HfMonomerA \/ HfMonomerB \/ HfCache
    \/ HfElectrostatics \/ HfExchange \/ HfInduction \/ HfDelta
    \/ DimerWfn \/ DftMonomerA \/ DftMonomerB
    \/ Cache \/ Electrostatics \/ Exchange \/ Induction \/ FddsDispersion \/ Mp2Dispersion
    \/ Publish \/ Return

Spec == Init /\ [][Next]_vars

Done == pc \in {"returned", "raised"}


(* ============================== properties ============================ *)
Range(q) == {q[i] : i \in 1..Len(q)}
Count(q, fn) == Cardinality({i \in 1..Len(q) : q[i].fn = fn})
ShiftMissing == (sapt.functional # "HF") /\ ((sapt.shift_a = 0) \/ (sapt.shift_b = 0))
AuxLabels == {"Delta HF Correction", "HF DIMER", "HF MONOMER A", "HF MONOMER B"}
Failed == err # "none"

\* C1: when run_sapt_dft has exited, by return or by any raised failure, every
\* setting recorded in the option stash has the value it had at entry.
RoundTripRestore ==
    Done => \A k \in StashKeys : opts[k] = optstash[k]

\* C2: with a functional other than HF and a monomer shift at 0.0 the run ends in
\* a ValidationError, whatever the reference and the fragment count, and no
\* scf_helper call has been made.
ShiftGateFailsFast ==
    ShiftMissing =>
        /\ pc \in {"start", "validate", "raised"}
        /\ pc = "raised" => err = "ValidationError"
        /\ calls = <<>>
ShiftGateWitness ==
    /\ ShiftMissing
    /\ pc = "raised"
    /\ pre["REFERENCE"].val = "UHF"
    /\ nfrag = 3

\* C3: with a reference other than RHF or a fragment count other than 2 the run
\* ends in a ValidationError before any sub-calculation, cache build, evaluator
\* call or namespace retargeting.
ReferenceAndFragmentGate ==
    (pre["REFERENCE"].val # "RHF" \/ nfrag # 2) =>
        /\ pc \in {"start", "validate", "raised"}
        /\ pc = "raised" => err = "ValidationError"
        /\ calls = <<>>
        /\ evals = <<>>
        /\ hf_cache = NoCache /\ cache = NoCache
        /\ retargets = <<>>
        /\ default_ns = "none" /\ file_ns = "none"
ReferenceAndFragmentWitness ==
    /\ ~ShiftMissing
    /\ pre["REFERENCE"].val = "RHF"
    /\ nfrag = 3
    /\ pc = "raised"

\* C4: a run on a composite whose fragment count is not 2 raises a
\* ValidationError and leaves every configuration setting as it was at entry.
FragmentCountNoSideEffect ==
    (nfrag # 2 /\ pc = "raised") => (err = "ValidationError" /\ opts = pre)

\* C5 as claimed: the returned value is the dimer result of a primary-pass
\* sub-calculation.
ReturnsPrimaryDimerResult ==
    pc = "returned" =>
        (ret.producer = "scf_helper" /\ ret.pass = "primary" /\ ret.mol = "dimer")
\* C5 as amended: the returned value is the dimer wavefunction dimer_wfn, which
\* is the delta-HF pass's dimer result when the flag is set and a wavefunction
\* built without any sub-calculation when it is not; no primary-pass dimer
\* sub-calculation exists.
ReturnsDimerWfn ==
    pc = "returned" =>
        /\ ret.mol = "dimer"
        /\ sapt.do_dhf => (/\ ret = wfn["hf_wfn_dimer"]
                           /\ ret.producer = "scf_helper"
                           /\ ret.pass = "aux"
                           /\ calls[1].mol = "dimer" /\ calls[1].pass = "aux")
        /\ ~sapt.do_dhf => ret = BuiltWfn
        /\ \A i \in 1..Len(calls) : ~(calls[i].pass = "primary" /\ calls[i].mol = "dimer")
ReturnsDimerWfnWitness ==
    pc = "returned" /\ sapt.do_dhf /\ ret.pass = "aux" /\ ret.energy = MaxEnergy

\* C6: when a sub-calculation, cache build or evaluator has failed, no label of
\* the result dictionary is in the variable store; labels of the dictionary are
\* in the store only after every stage has completed.
NoPartialReport ==
    /\ Failed => (DOMAIN data) \cap (DOMAIN variables) = {}
    /\ (DOMAIN data) \cap (DOMAIN variables) # {} => pc \in {"tstop", "returned"}
NoPartialReportWitness ==
    /\ pc = "raised"
    /\ err \in {"EngineError", "ConvergenceError"}
    /\ Len(produced) >= 5
    /\ DOMAIN variables # {}

NoAuxWhenFlagOff ==
    ~sapt.do_dhf =>
        /\ \A c \in Range(calls) : c.pass # "aux"
        /\ \A c \in Range(evals) : c.pass # "aux"
        /\ hf_data = EmptyMap
        /\ \A l \in DOMAIN data : data[l].pass # "aux"
        /\ AuxLabels \cap ((DOMAIN data) \cup (DOMAIN variables)) = {}
NoAuxWitness ==
    ~sapt.do_dhf /\ pc = "returned" /\ DOMAIN data \subseteq DOMAIN variables

\* C9: on a successful run exactly one of df_mp2_fisapt_dispersion and
\* df_mp2_sapt_dispersion has been called, once, the one SAPT_DFT_MP2_DISP_ALG
\* selects, and only that one has an entry in the result dictionary.
Selected == IF disp_alg = "FISAPT" THEN "df_mp2_fisapt_dispersion" ELSE "df_mp2_sapt_dispersion"
Unselected == IF disp_alg = "FISAPT" THEN "df_mp2_sapt_dispersion" ELSE "df_mp2_fisapt_dispersion"
OneDispersionEvaluator ==
    /\ Count(evals, "df_mp2_fisapt_dispersion") + Count(evals, "df_mp2_sapt_dispersion") <= 1
    /\ pc \in {"publish", "tstop", "returned"} =>
          /\ Count(evals, Selected) = 1
          /\ Count(evals, Unselected) = 0
          /\ \E l \in DOMAIN data : data[l].src = Selected
          /\ \A l \in DOMAIN data : data[l].src # Unselected
OneDispersionWitness ==
    pc = "returned" /\ disp_alg = "FISAPT"

\* C10 as claimed: no two entries produced for the result dictionary share a
\* label.
LabelUniqueness ==
    \A i, j \in 1..Len(produced) : i # j => produced[i].label # produced[j].label
\* C10 as amended: the merge is dict.update; as long as the labels produced
\* so far are pairwise distinct every produced entry is in the dictionary
\* unchanged; in every case the dictionary holds, for each label, the entry
\* produced last under that label.
LastWithLabel(i) == \A j \in (i + 1)..Len(produced) : produced[j].label # produced[i].label
MergeKeepsDistinctLabels ==
    /\ LabelUniqueness =>
          /\ Cardinality(DOMAIN data) = Len(produced)
          /\ \A i \in 1..Len(produced) :
                /\ produced[i].label \in DOMAIN data
                /\ data[produced[i].label].src = produced[i].src
    /\ \A i \in 1..Len(produced) :
          LastWithLabel(i) =>
              /\ produced[i].label \in DOMAIN data
              /\ data[produced[i].label].src = produced[i].src
MergeWitness ==
    pc = "returned" /\ LabelUniqueness /\ Len(produced) = 8

\* C11 as claimed: on a successful run every labeled value of the delta-HF
\* pass's mapping and every entry produced in the DFT pass is an entry of the
\* result dictionary, and every entry of the dictionary is in the variable
\* store under its label.
ReportHoldsEveryPassResult ==
    pc = "returned" =>
        /\ \A l \in DOMAIN hf_data : l \in DOMAIN data /\ data[l] = hf_data[l]
        /\ \A p \in Range(produced) : p.label \in DOMAIN data
        /\ \A l \in DOMAIN data : l \in DOMAIN variables /\ variables[l] = data[l].val
\* C11 as amended: on a successful run the dictionary holds every label
\* produced in the DFT pass and, when the delta-HF pass ran, the single
\* delta-HF entry 'Delta HF Correction'; the delta-HF pass's own mapping
\* hf_data is never merged into it; every entry of the dictionary is in the
\* variable store under its label.
ReportHoldsPrimaryAndDelta ==
    pc = "returned" =>
        /\ \A p \in Range(produced) : p.label \in DOMAIN data
        /\ \A l \in DOMAIN data : data[l].pass = "aux" => l = "Delta HF Correction"
        /\ sapt.do_dhf => "Delta HF Correction" \in DOMAIN data
        /\ {"DFT MONOMERA", "DFT MONOMERB"} \subseteq DOMAIN data
        /\ \A l \in DOMAIN data : l \in DOMAIN variables /\ variables[l] = data[l].val
ReportWitness ==
    /\ pc = "returned"
    /\ sapt.do_dhf
    /\ Cardinality(DOMAIN hf_data) = 6
    /\ Cardinality(DOMAIN data) = 8
    /\ data["DFT MONOMERB"].val = 1

CallsOf(p) == SelectSeq(calls, LAMBDA c : c.pass = p)
Mols(q) == [i \in 1..Len(q) |-> q[i].mol]
IsPrefix(a, b) == Len(a) <= Len(b) /\ \A i \in 1..Len(a) : a[i] = b[i]
Completed(name) == wfn[name] # NoWfn

\* C12 as claimed: in every pass a monomer A sub-calculation comes after a dimer
\* sub-calculation of the same pass and monomer B after monomer A, and a pass
\* that ran to the end made three sub-calculations.
ThreeSubCalcsEveryPass ==
    /\ \A i \in 1..Len(calls) : calls[i].mol = "monomerA" =>
          \E j \in 1..(i - 1) : calls[j].mol = "dimer" /\ calls[j].pass = calls[i].pass
    /\ \A i \in 1..Len(calls) : calls[i].mol = "monomerB" =>
          \E j \in 1..(i - 1) : calls[j].mol = "monomerA" /\ calls[j].pass = calls[i].pass
    /\ pc = "returned" => Len(CallsOf("primary")) = 3
\* C12 as amended: the delta-HF pass makes its sub-calculations in the order
\* dimer, monomer A, monomer B, each starting after the one before has
\* completed; the DFT pass makes exactly two, monomer A then monomer B, and no
\* dimer sub-calculation.
SubCalcOrder ==
    /\ IsPrefix(Mols(CallsOf("aux")), <<"dimer", "monomerA", "monomerB">>)
    /\ IsPrefix(Mols(CallsOf("primary")), <<"monomerA", "monomerB">>)
    /\ Len(CallsOf("aux")) >= 2 => Completed("hf_wfn_dimer")
    /\ Len(CallsOf("aux")) >= 3 => Completed("hf_wfn_A")
    /\ Len(CallsOf("primary")) >= 2 => Completed("wfn_A")
    /\ pc = "returned" =>
          /\ Len(CallsOf("primary")) = 2
          /\ Len(CallsOf("aux")) = IF sapt.do_dhf THEN 3 ELSE 0
SubCalcOrderWitness ==
    pc = "returned" /\ Len(calls) = 5

LastCall == calls[Len(calls)]
\* the scf_helper call of a DFT monomer has raised
MonomerFailed ==
    /\ pc = "raised" /\ err = "EngineError" /\ Len(calls) > 0
    /\ LastCall.pass = "primary"
    /\ \/ LastCall.mol = "monomerA" /\ ~Completed("wfn_A")
       \/ LastCall.mol = "monomerB" /\ ~Completed("wfn_B")

\* C13: after a DFT monomer sub-calculation, whether it completed or raised and
\* whether or not a shift was set for it, DFT_GRAC_SHIFT is 0.0.
ShiftResetWhateverOutcome ==
    /\ pc \in {"dft_monB", "cache"} => get_option(opts, "DFT_GRAC_SHIFT") = 0
    /\ MonomerFailed => get_option(opts, "DFT_GRAC_SHIFT") = 0

AuxRetargets == <<(<<"dimer", "monomerA">>), (<<"monomerA", "monomerB">>), (<<"monomerB", "dimer">>)>>
PrimaryRetargets == <<(<<"dimer", "monomerA">>), (<<"monomerA", "monomerB">>)>>
ExpectedRetargets == IF sapt.do_dhf THEN AuxRetargets \o PrimaryRetargets ELSE PrimaryRetargets
UsesDF == get_option(opts, "SCF_TYPE") = "DF"

EvalsOf(p) == SelectSeq(evals, LAMBDA c : c.pass = p)
Fns(q) == [i \in 1..Len(q) |-> q[i].fn]
JKTerms == <<"electrostatics", "exchange", "induction">>
DispersionFns == {"df_fdds_dispersion", "df_mp2_fisapt_dispersion", "df_mp2_sapt_dispersion"}

\* C15: in each pass the evaluators are called in the order electrostatics,
\* exchange, induction, followed in the DFT pass only by the dispersion
\* evaluators; no evaluator of a pass is called before both monomer
\* sub-calculations of that pass have completed; the delta-HF pass calls no
\* dispersion evaluator.
EvaluatorOrder ==
    /\ IsPrefix(Fns(EvalsOf("aux")), JKTerms)
    /\ IsPrefix(Fns(EvalsOf("primary")), JKTerms \o <<"df_fdds_dispersion", Selected>>)
    /\ EvalsOf("aux") # <<>> => Completed("hf_wfn_A") /\ Completed("hf_wfn_B")
    /\ EvalsOf("primary") # <<>> => Completed("wfn_A") /\ Completed("wfn_B")
    /\ \A c \in Range(EvalsOf("aux")) : c.fn \notin DispersionFns
    /\ pc = "returned" =>
          /\ Len(EvalsOf("primary")) = 5
          /\ Len(EvalsOf("aux")) = IF sapt.do_dhf THEN 3 ELSE 0
EvaluatorOrderWitness ==
    pc = "returned" /\ Len(evals) = 8

BuildsOf(p) == SelectSeq(builds, LAMBDA b : b.pass = p)
MonomerA(p) == IF p = "aux" THEN wfn["hf_wfn_A"] ELSE wfn["wfn_A"]
MonomerB(p) == IF p = "aux" THEN wfn["hf_wfn_B"] ELSE wfn["wfn_B"]

\* C16: build_sapt_jk_cache is called at most once in each pass, exactly once in
\* each pass that ran to the end, with that pass's own monomer A and monomer B
\* results, before any evaluator of the pass; every evaluator call receives the
\* cache of its own pass.
CacheOncePerPass ==
    /\ \A p \in {"aux", "primary"} :
          /\ Len(BuildsOf(p)) <= 1
          /\ EvalsOf(p) # <<>> => Len(BuildsOf(p)) = 1
          /\ \A b \in Range(BuildsOf(p)) :
                /\ b.A = MonomerA(p) /\ b.B = MonomerB(p)
                /\ b.A.pass = p /\ b.A.mol = "monomerA" /\ b.A.producer = "scf_helper"
                /\ b.B.pass = p /\ b.B.mol = "monomerB" /\ b.B.producer = "scf_helper"
    /\ \A c \in Range(evals) : c.cache = c.pass
    /\ pc = "returned" =>
          /\ Len(BuildsOf("primary")) = 1
          /\ Len(BuildsOf("aux")) = IF sapt.do_dhf THEN 1 ELSE 0
CacheWitness ==
    /\ pc = "returned"
    /\ Len(builds) = 2
    /\ builds[1].A.energy # builds[2].A.energy

AuxComplete ==
    /\ Len(CallsOf("aux")) = 3
    /\ Len(EvalsOf("aux")) = 3
    /\ Completed("hf_wfn_dimer") /\ Completed("hf_wfn_A") /\ Completed("hf_wfn_B")
    /\ "Delta HF Correction" \in DOMAIN data

\* C17: when the delta-HF pass runs, every one of its sub-calculations runs under
\* REFERENCE = RHF and all its sub-calculations and evaluators have completed
\* before REFERENCE is set to RKS and DFT_FUNCTIONAL to the configured
\* functional, which in turn happens before any DFT sub-calculation starts.
AuxBeforePrimary ==
    /\ \A c \in Range(CallsOf("aux")) : c.reference = "RHF"
    /\ \A i, j \in 1..Len(calls) : i < j => ~(calls[i].pass = "primary" /\ calls[j].pass = "aux")
    /\ \A i, j \in 1..Len(evals) : i < j => ~(evals[i].pass = "primary" /\ evals[j].pass = "aux")
    /\ (sapt.do_dhf /\ get_option(opts, "REFERENCE") = "RKS") => AuxComplete
    /\ \A c \in Range(CallsOf("primary")) :
          /\ c.reference = "RKS" /\ c.functional = sapt.functional
          /\ sapt.do_dhf => AuxComplete
AuxBeforePrimaryWitness ==
    /\ sapt.do_dhf
    /\ sapt.functional = "PBE0"
    /\ Len(calls) = 5
    /\ calls[3].reference = "RHF" /\ calls[4].reference = "RKS"

\* lines 100-107: the computations printed under 'Required computations'
Announced(dhf) ==
    (IF dhf THEN <<(<<"HF", "dimer">>), (<<"HF", "monomerA">>), (<<"HF", "monomerB">>)>> ELSE <<>>)
    \o <<(<<"DFT", "monomerA">>), (<<"DFT", "monomerB">>)>>
\* the method a sub-calculation ran: restricted Hartree-Fock or restricted Kohn-Sham
Method(c) == IF c.reference = "RHF" THEN "HF" ELSE IF c.reference = "RKS" THEN "DFT" ELSE "other"
Performed == [i \in 1..Len(calls) |-> <<Method(calls[i]), calls[i].mol>>]

\* C18: the scf_helper calls of a run are, in order, those printed under
\* 'Required computations', and a successful run has made all of them: five
\* with the delta-HF flag set, two without it, in neither case a DFT dimer.
PerformsAnnounced ==
    /\ IsPrefix(Performed, Announced(sapt.do_dhf))
    /\ pc = "returned" => Performed = Announced(sapt.do_dhf)
PerformsAnnouncedWitness ==
    pc = "returned" /\ ~sapt.do_dhf /\ Len(calls) = 2 /\ calls[2].mol = "monomerB"

\* C19: every option key the run writes is one of the keys recorded in the
\* option stash built at entry.
WritesOnlyStashedKeys ==
    written \subseteq DOMAIN optstash

\* C20: every DFT monomer sub-calculation starts with DFT_GRAC_SHIFT equal to
\* that monomer's configured shift (SAPT_DFT_GRAC_SHIFT_A for monomer A,
\* SAPT_DFT_GRAC_SHIFT_B for monomer B), whatever DFT_GRAC_SHIFT was at entry.
MonomerRunsUnderOwnShift ==
    \A c \in Range(CallsOf("primary")) :
        c.shift = IF c.mol = "monomerA" THEN sapt.shift_a ELSE sapt.shift_b

====
